---- MODULE Spec2Model ----
(***************************************************************************)
(* Authentication flow of the multi-tenant server: registration, login,    *)
(* e-mail verification codes and password-reset codes.                     *)
(*                                                                         *)
(* The database is a set of tables of committed rows.  Every request runs  *)
(* in a request slot p and takes one step for every call it awaits: it     *)
(* reads the committed rows, keeps what it loaded in loc[p], collects the  *)
(* rows it inserts with { transaction } in tx[p] until its transaction     *)
(* commits, and issues its un-awaited updateAttributes calls, which carry  *)
(* no transaction, as independent autocommit UPDATE statements (updates).  *)
(* Time is counted in units of the 5-minute throttle window.               *)
(***************************************************************************)
EXTENDS Integers, FiniteSets, Sequences, TLC

\* ---------------------------------------------------------------- bounds
MaxRequests == 2      \* requests served in one behaviour
MaxTicks == 2         \* clock advances in one behaviour

\* ------------------------------------------------------- program constants
ThrottleMinutes == 5          \* moment(currentTime).subtract(5, "minutes")
Hour == 60 \div ThrottleMinutes
VerifyGracePeriod == 2        \* emailVerificationCode.gracePeriod
ResetGracePeriod == 2         \* passwordReset.gracePeriod (workspace known)
AccountGracePeriod == 1       \* passwordReset.gracePeriod (workspace unknown)

Procs == 1 .. MaxRequests     \* one slot for every request, in order of arrival
Workspaces == {"w1", "w2"}
Emails == {"e1"}
Passwords == {"p1", "p2"}
UserIds == {0, 1}             \* 0: received.userId === null

VARIABLES
  now,                    \* the server clock, new Date()
  client,                 \* committed rows of table client
  user,                   \* committed rows of table user
  userRoles,              \* committed rows of table userRoles
  emailVerificationCode,  \* committed rows of table emailVerificationCode
  passwordReset,          \* committed rows of table passwordReset
  sentEmails,             \* committed rows of table sentEmails
  nextId,                 \* AUTO_INCREMENT counters and the uniqid() source
  updates,                \* the un-awaited updateAttributes calls in flight
  applied,                \* the updateAttributes calls that reached the database
  pc,                     \* position of the request in slot p
  req,                    \* the request being served in slot p
  loc,                    \* local variables of the handler in slot p
  issued,                 \* updateAttributes calls made by the request in slot p
  tx,                     \* rows inserted by the transaction of slot p
  conn,                   \* pool connection of the route handler in slot p
  resp,                   \* response or error handed to the caller
  mount                   \* the VerifyEmail component mounted in the browser

db == <<client, user, userRoles, emailVerificationCode, passwordReset>>
vars == <<now, client, user, userRoles, emailVerificationCode, passwordReset,
          sentEmails, nextId, updates, applied, pc, req, loc, issued, tx, conn,
          resp, mount>>

\* the codes a request can present: every code handed out so far, and 0,
\* which no row carries
Codes == 0 .. (nextId.code - 1)

\* ------------------------------------------------------------- data shapes
NoToken == [userId |-> 0, clientId |-> 0, workspaceURL |-> ""]
NoReq == [op |-> "none", workspaceURL |-> "", emailAddress |-> "",
          password |-> "", language |-> "", code |-> 0, userId |-> 0,
          redeemed |-> FALSE, clientId |-> 0, token |-> NoToken]
NoResp == [status |-> 0, reason |-> "", token |-> NoToken]
EmptyTx == [client |-> {}, user |-> {}, userRoles |-> {},
            emailVerificationCode |-> {}, passwordReset |-> {}]
\* the local variables of a handler that has loaded nothing: client, code
\* (reset or emailVerificationCode) and user hold the row found, or nothing
\* for null; users are the rows of findAll not yet passed by the loop;
\* response is the value the transaction callback returned; currentTime is
\* the new Date() the handler took before a query it awaits; createdAt is the
\* time at which the handler called the create of a code row, which the row
\* carries when the INSERT is answered
NoLoc == [client |-> {}, code |-> {}, user |-> {}, users |-> <<>>,
          response |-> NoResp, currentTime |-> 0, createdAt |-> 0]
\* no VerifyEmail component is mounted: phase is the position in
\* componentDidMount, location is history.location, validateReq and verifyReq
\* are the slots of the requests it dispatched
Unmounted == [phase |-> "unmounted", location |-> "", subdomain |-> "",
              validateReq |-> 0, verifyReq |-> 0, verifyDispatches |-> 0]

\* bcrypt.hash(password, 10) and bcrypt.compare(password, hash)
bcryptHash(password) == <<"bcrypt", password>>
bcryptCompare(password, hash) == hash = bcryptHash(password)

\* new ServerResponseError(403, message, reason): reason names the field key
ServerResponseError(status, reason) ==
  [status |-> status, reason |-> reason, token |-> NoToken]
\* { status: 200, message: t("label.success") }
Success == [status |-> 200, reason |-> "", token |-> NoToken]
\* a handler that ends with a bare return hands undefined to its caller
Undefined == [status |-> 0, reason |-> "undefined", token |-> NoToken]
\* a database or connection error, passed on to the generic error handler
DatabaseError == [status |-> 500, reason |-> "database", token |-> NoToken]

\* models().client.findOne({ where: { workspaceURL, active: true } })
ActiveClients(workspaceURL) ==
  {c \in client : c.workspaceURL = workspaceURL /\ c.active}

\* models().user.findOne({ where: { id, clientId, active: true } })
ActiveUsers(id, clientId) ==
  {u \in user : u.id = id /\ u.clientId = clientId /\ u.active}

\* models().user.findOne({ where: { clientId, emailAddress, active: true } })
ActiveUsersByEmail(clientId, emailAddress) ==
  {u \in user : u.clientId = clientId /\ u.emailAddress = emailAddress /\ u.active}

\* ------------------------------------------------------------- languages
\* LANGUAGE_CODES of shared/constants: the language code of each numerical
\* key a language column can hold
LANGUAGE_CODES == [key \in {"1"} |-> "en"]

\* the languages a registration can ask for: one of the table, or none
Languages == {"en", ""}

\* Object.keys(LANGUAGE_CODES).find(key => LANGUAGE_CODES[key] === language):
\* the key of the language, or "" for undefined
activeLanguage(language) ==
  IF \E key \in DOMAIN LANGUAGE_CODES : LANGUAGE_CODES[key] = language
    THEN CHOOSE key \in DOMAIN LANGUAGE_CODES : LANGUAGE_CODES[key] = language
    ELSE ""

\* LANGUAGE_CODES[key] || "", for the key a language column holds ("" stands
\* for a column that was not set)
languageCode(key) ==
  IF key \in DOMAIN LANGUAGE_CODES THEN LANGUAGE_CODES[key] ELSE ""

\* ------------------------------------------------------------------- rows
ClientRow(id, workspaceURL, defaultLanguage) ==
  [id |-> id, workspaceURL |-> workspaceURL, subscriptionId |-> "TRIAL",
   active |-> TRUE, defaultLanguage |-> defaultLanguage]
UserRow(id, clientId, emailAddress, password, language) ==
  [id |-> id, clientId |-> clientId, emailAddress |-> emailAddress,
   password |-> bcryptHash(password), active |-> TRUE, emailVerified |-> FALSE,
   lastLoginDate |-> 0, language |-> language]
RoleRow(userId) == [userId |-> userId, roleId |-> "OWNER", active |-> TRUE]
\* mutant: a code is stored as already activated
CodeRowActivated(code, userId, clientId, gracePeriod, createdAt) ==
  [code |-> code, activated |-> TRUE, userId |-> userId, clientId |-> clientId,
   gracePeriod |-> gracePeriod, createdAt |-> createdAt]

CodeRow(code, userId, clientId, gracePeriod, createdAt) ==
  [code |-> code, activated |-> FALSE, userId |-> userId, clientId |-> clientId,
   gracePeriod |-> gracePeriod, createdAt |-> createdAt]
\* sendEmail(emailType, language, to, params, clientId, userId) logs the mail
EmailRow(emailType, to, clientId, userId, createdAt) ==
  [emailType |-> emailType, to |-> to, clientId |-> clientId, userId |-> userId,
   createdAt |-> createdAt]

\* the rows of the tables subscriptionFeatures and clientStyling, which no
\* handler writes: only the BASIC subscription includes the STYLING feature,
\* and only client 1 has stored a styling
Subscriptions == {"TRIAL", "BASIC"}
subscriptionFeatures ==
  {[subscriptionId |-> "TRIAL", featureId |-> "BILLING"],
   [subscriptionId |-> "BASIC", featureId |-> "BILLING"],
   [subscriptionId |-> "BASIC", featureId |-> "STYLING"]}
clientStyling ==
  {[clientId |-> 1, logoImage |-> "logo", backgroundImage |-> "image",
    backgroundColor |-> "white", primaryColor |-> "blue",
    secondaryColor |-> "grey"]}

\* ------------------------------------------------------------------- Init
\* Either the empty database, or the database left by one registration of
\* workspace w1 followed by one forgot-password request, both at time 0, seen
\* at that time or one clock unit later: with the rows, the two mails logged.
SeededEmails ==
  {EmailRow("CLIENT_WELCOME", "e1", 1, 1, 0),
   EmailRow("FORGOT_PASSWORD", "e1", 1, 1, 0)}

InitEmpty ==
  /\ now = 0
  /\ client = {} /\ user = {} /\ userRoles = {}
  /\ emailVerificationCode = {} /\ passwordReset = {} /\ sentEmails = {}
  /\ nextId = [client |-> 1, user |-> 1, code |-> 1]

InitSeeded ==
  /\ now \in {0, 1}
  /\ client = {ClientRow(1, "w1", "")}
  /\ user = {UserRow(1, 1, "e1", "p1", "")}
  /\ userRoles = {RoleRow(1)}
  /\ emailVerificationCode = {CodeRow(1, 1, 1, VerifyGracePeriod, 0)}
  /\ passwordReset = {CodeRow(2, 1, 1, ResetGracePeriod, 0)}
  /\ sentEmails = SeededEmails
  /\ nextId = [client |-> 2, user |-> 2, code |-> 3]

\* The seeded database after workspace w2 was registered by POST
\* /internal/register, which sends no mail, with the same e-mail address and
\* then suspended (client.active = false), and a second user of workspace w1
\* was deactivated (user.active = false).
InitSuspended ==
  /\ now \in {0, 1}
  /\ client = {ClientRow(1, "w1", ""),
               [ClientRow(2, "w2", "") EXCEPT !.active = FALSE]}
  /\ user = {UserRow(1, 1, "e1", "p1", ""), UserRow(2, 2, "e1", "p2", ""),
             [UserRow(3, 1, "e1", "p2", "") EXCEPT !.active = FALSE]}
  /\ userRoles = {RoleRow(1), RoleRow(2), RoleRow(3)}
  /\ emailVerificationCode = {CodeRow(1, 1, 1, VerifyGracePeriod, 0)}
  /\ passwordReset = {CodeRow(2, 1, 1, ResetGracePeriod, 0)}
  /\ sentEmails = SeededEmails
  /\ nextId = [client |-> 3, user |-> 4, code |-> 3]

\* The seeded database at time 1, with workspace w1, which was registered
\* with the language "en" and has stored a styling, on either subscription,
\* and after workspace w2 was registered by POST /internal/register and moved
\* to the BASIC subscription.
InitStyled ==
  /\ now = 1
  /\ \E s \in Subscriptions :
       client = {[ClientRow(1, "w1", "1") EXCEPT !.subscriptionId = s],
                 [ClientRow(2, "w2", "") EXCEPT !.subscriptionId = "BASIC"]}
  /\ user = {UserRow(1, 1, "e1", "p1", "1"), UserRow(2, 2, "e1", "p2", "")}
  /\ userRoles = {RoleRow(1), RoleRow(2)}
  /\ emailVerificationCode = {CodeRow(1, 1, 1, VerifyGracePeriod, 0)}
  /\ passwordReset = {CodeRow(2, 1, 1, ResetGracePeriod, 0)}
  /\ sentEmails = SeededEmails
  /\ nextId = [client |-> 3, user |-> 3, code |-> 3]

\* no request has arrived yet
NoRequests ==
  /\ updates = {}
  /\ applied = {}
  /\ pc = [p \in Procs |-> "idle"]
  /\ req = [p \in Procs |-> NoReq]
  /\ loc = [p \in Procs |-> NoLoc]
  /\ issued = [p \in Procs |-> {}]
  /\ tx = [p \in Procs |-> EmptyTx]
  /\ conn = [p \in Procs |-> "none"]
  /\ resp = [p \in Procs |-> NoResp]
  /\ mount = Unmounted

Init == (InitEmpty \/ InitSeeded) /\ NoRequests

\* ------------------------------------------------------------ the clock
\* Ticks(t): the number of clock advances that lead to time t
Ticks(t) == (t \div Hour) + (t % Hour)

Tick ==
  /\ \E d \in {1, Hour} :
       /\ Ticks(now + d) <= MaxTicks
       /\ now' = now + d
  /\ UNCHANGED <<mount, db, sentEmails, nextId, updates, applied, pc, req, loc,
                 issued, tx, conn, resp>>

\* ------------------------------------------------------- request framing
\* the code was redeemed before: a request that presented it to the handler
\* which redeems it has already been answered with the success envelope
Redeemed(op, code) ==
  \E q \in Procs :
    /\ pc[q] = "done" /\ resp[q].status = 200 /\ req[q].code = code
    /\ req[q].op = IF op = "verifyUserEmail" THEN "verifyUserEmail"
                                             ELSE "resetUserPassword"

\* the request as received, without a language; redeemed records what was
\* true when it arrived
Request(op, workspaceURL, emailAddress, password, code, userId) ==
  [op |-> op, workspaceURL |-> workspaceURL, emailAddress |-> emailAddress,
   password |-> password, language |-> "", code |-> code, userId |-> userId,
   redeemed |-> Redeemed(op, code), clientId |-> 0, token |-> NoToken]

\* the p-th request arrives and its handler is entered at label
Begin(p, r, label) ==
  /\ pc[p] = "idle"
  /\ \A q \in Procs : q < p => pc[q] # "idle"
  /\ req' = [req EXCEPT ![p] = r]
  /\ pc' = [pc EXCEPT ![p] = label]

\* the handler of slot p hands r to its caller
Respond(p, r) ==
  /\ resp' = [resp EXCEPT ![p] = r]
  /\ pc' = [pc EXCEPT ![p] = "done"]

\* transaction.commit(): the rows of the transaction join the committed rows
CommitRows(p) ==
  /\ client' = client \cup tx[p].client
  /\ user' = user \cup tx[p].user
  /\ userRoles' = userRoles \cup tx[p].userRoles
  /\ emailVerificationCode' = emailVerificationCode \cup tx[p].emailVerificationCode
  /\ passwordReset' = passwordReset \cup tx[p].passwordReset


\* ------------------------------------------------- managed transactions
\* database().transaction(async function(transaction) { ... }): the callback
\* runs up to its next await in one step.

\* the handler goes on at label with the local variables l
Goto(p, label, l) ==
  /\ pc' = [pc EXCEPT ![p] = label]
  /\ loc' = [loc EXCEPT ![p] = l]
  /\ UNCHANGED resp

\* the local variables l of a callback that has ended: the times it took are
\* gone with it
Ended(l) == [l EXCEPT !.currentTime = 0, !.createdAt = 0]

\* the callback throws error, or the query it awaits is rejected with it: the
\* transaction is rolled back and the error handed to the caller
Throw(p, error) == Respond(p, error) /\ loc' = [loc EXCEPT ![p] = Ended(@)]

\* the callback returns response: the transaction is committed next
Return(p, response) ==
  Goto(p, "commit", [Ended(loc[p]) EXCEPT !.response = response])

\* what a step that only reads leaves alone
ReadOnly ==
  UNCHANGED <<now, mount, db, sentEmails, nextId, updates, applied, req, issued,
              tx, conn>>

\* mutant: a failed commit leaves the rows of the transaction in the tables
TransactionCommitNoRollback(p) ==
  /\ pc[p] = "commit"
  /\ \/ CommitRows(p) /\ Respond(p, loc[p].response)
     \/ CommitRows(p) /\ Respond(p, DatabaseError)
  /\ UNCHANGED <<now, mount, sentEmails, nextId, updates, applied, req, loc, issued,
                 tx, conn>>

\* the transaction commits and the caller receives what the callback
\* returned, or the commit fails and the caller receives the database error
TransactionCommit(p) ==
  /\ pc[p] = "commit"
  /\ \/ CommitRows(p) /\ Respond(p, loc[p].response)
     \/ UNCHANGED db /\ Respond(p, DatabaseError)
  /\ UNCHANGED <<now, mount, sentEmails, nextId, updates, applied, req, loc,
                 issued, tx, conn>>

\* ------------------------------------------------- registerNewClient
\* models().client.create / INSERT INTO client: the row takes the next id;
\* defaultLanguage is the key of the language asked for (the route sets none)
InsertClient(p) ==
  /\ tx' = [tx EXCEPT ![p].client =
              {ClientRow(nextId.client, req[p].workspaceURL,
                         activeLanguage(req[p].language))}]
  /\ nextId' = [nextId EXCEPT !.client = @ + 1]

\* models().user.create / INSERT INTO user, with the id of the client inserted
InsertUser(p) ==
  /\ \E c \in tx[p].client :
       tx' = [tx EXCEPT ![p].user =
                {UserRow(nextId.user, c.id, req[p].emailAddress, req[p].password,
                         activeLanguage(req[p].language))}]
  /\ nextId' = [nextId EXCEPT !.user = @ + 1]

\* models().userRoles.create / INSERT INTO userRoles, with the id of the user
InsertRole(p) ==
  /\ \E u \in tx[p].user : tx' = [tx EXCEPT ![p].userRoles = {RoleRow(u.id)}]
  /\ UNCHANGED nextId

\* mutant: the verification code is stored twice
generateTwoUserEmailValidationCodes(userId, clientId, createdAt) ==
  {CodeRow(nextId.code, userId, clientId, VerifyGracePeriod, createdAt),
   CodeRow(nextId.code + 1, userId, clientId, VerifyGracePeriod, createdAt)}

\* generateUserEmailValidationCode(userId, clientId, transaction): the row of
\* the code uniqid() made, created at the time createdAt of the call
generateUserEmailValidationCode(userId, clientId, createdAt) ==
  {CodeRow(nextId.code, userId, clientId, VerifyGracePeriod, createdAt)}

RegisterStart(p) ==
  /\ \E w \in Workspaces, e \in Emails, pw \in Passwords, l \in Languages :
       Begin(p, [Request("registerNewClient", w, e, pw, 0, 0)
                   EXCEPT !.language = l], "rnc_check")
  /\ UNCHANGED <<now, mount, db, sentEmails, nextId, updates, applied, loc, issued, tx,
                 conn, resp>>

\* mutant: the check for a client of the same workspaceURL is left out
RegisterCheckSkipped(p) ==
  /\ pc[p] = "rnc_check"
  /\ Goto(p, "rnc_client", loc[p])
  /\ ReadOnly

\* client.findOne by workspaceURL: the query fails, finds a client, or finds none
RegisterCheck(p) ==
  /\ pc[p] = "rnc_check"
  /\ \/ Throw(p, DatabaseError)
     \/ /\ ActiveClients(req[p].workspaceURL) # {}
        /\ Throw(p, ServerResponseError(403, "workspaceURL"))
     \/ /\ ActiveClients(req[p].workspaceURL) = {}
        /\ Goto(p, "rnc_client", loc[p])
  /\ ReadOnly

\* await models().client.create
RegisterClient(p) ==
  /\ pc[p] = "rnc_client"
  /\ \/ Throw(p, DatabaseError) /\ UNCHANGED <<tx, nextId>>
     \/ InsertClient(p) /\ Goto(p, "rnc_hash", loc[p])
  /\ UNCHANGED <<now, mount, db, sentEmails, updates, applied, req, issued, conn>>

\* await bcrypt.hash(received.password, 10)
RegisterHash(p) ==
  /\ pc[p] = "rnc_hash"
  /\ Goto(p, "rnc_user", loc[p])
  /\ ReadOnly

\* await models().user.create
RegisterUser(p) ==
  /\ pc[p] = "rnc_user"
  /\ \/ Throw(p, DatabaseError) /\ UNCHANGED <<tx, nextId>>
     \/ InsertUser(p) /\ Goto(p, "rnc_role", loc[p])
  /\ UNCHANGED <<now, mount, db, sentEmails, updates, applied, req, issued, conn>>

\* mutant: the insert of the OWNER role is left out
RegisterRoleSkipped(p) ==
  /\ pc[p] = "rnc_role"
  /\ Goto(p, "rnc_code", [loc[p] EXCEPT !.createdAt = now])
  /\ ReadOnly

\* await models().userRoles.create; then generateUserEmailValidationCode is
\* called, which calls emailVerificationCode.create
RegisterRole(p) ==
  /\ pc[p] = "rnc_role"
  /\ \/ Throw(p, DatabaseError) /\ UNCHANGED <<tx, nextId>>
     \/ InsertRole(p) /\ Goto(p, "rnc_code", [loc[p] EXCEPT !.createdAt = now])
  /\ UNCHANGED <<now, mount, db, sentEmails, updates, applied, req, issued, conn>>

\* await generateUserEmailValidationCode; then the welcome mail is sent and
\* the response returned
RegisterCode(p) ==
  /\ pc[p] = "rnc_code"
  /\ \/ Throw(p, DatabaseError) /\ UNCHANGED <<tx, nextId, sentEmails>>
     \/ \E c \in tx[p].client, u \in tx[p].user :
          LET rows == generateUserEmailValidationCode(u.id, c.id,
                                                      loc[p].createdAt) IN
          /\ tx' = [tx EXCEPT ![p].emailVerificationCode = rows]
          /\ nextId' = [nextId EXCEPT !.code = @ + Cardinality(rows)]
          /\ sentEmails' = sentEmails \cup
               {EmailRow("CLIENT_WELCOME", u.emailAddress, c.id, u.id, now)}
          /\ Return(p, Success)
  /\ UNCHANGED <<now, mount, db, updates, applied, req, issued, conn>>

\* ------------------------------------------------ POST /internal/register
\* validate(received, register): the field of the body that is missing, or ""
\* for null; a body of the model misses at most one field
validate(received) ==
  IF received.workspaceURL = "" THEN "workspaceURL"
  ELSE IF received.emailAddress = "" THEN "emailAddress"
  ELSE IF received.password = "" THEN "password"
  ELSE ""

\* the body is validated before a connection is asked for
RouteRegisterStart(p) ==
  /\ \E w \in Workspaces, e \in Emails \cup {""}, pw \in Passwords :
       LET received == Request("routeRegister", w, e, pw, 0, 0) IN
       IF validate(received) # ""
         THEN /\ Begin(p, received, "done")
              /\ resp' = [resp EXCEPT
                            ![p] = ServerResponseError(403, validate(received))]
         ELSE /\ Begin(p, received, "rr_connect")
              /\ UNCHANGED resp
  /\ UNCHANGED <<now, mount, db, sentEmails, nextId, updates, applied, loc, issued, tx,
                 conn>>

\* perform().getConnection(callback)
getConnection(p, label) ==
  /\ \/ Respond(p, DatabaseError) /\ UNCHANGED conn
     \/ /\ conn' = [conn EXCEPT ![p] = "held"]
        /\ pc' = [pc EXCEPT ![p] = label]
        /\ UNCHANGED resp
  /\ UNCHANGED <<now, mount, db, sentEmails, nextId, updates, applied, req, loc, issued,
                 tx>>

\* connection.beginTransaction(callback): on error the connection is released
beginTransaction(p, label) ==
  /\ \/ /\ Respond(p, DatabaseError)
        /\ conn' = [conn EXCEPT ![p] = "released"]
     \/ /\ pc' = [pc EXCEPT ![p] = label]
        /\ UNCHANGED <<conn, resp>>
  /\ UNCHANGED <<now, mount, db, sentEmails, nextId, updates, applied, req, loc, issued,
                 tx>>

RouteRegisterConnect(p) ==
  /\ pc[p] = "rr_connect"
  /\ getConnection(p, "rr_begin")

RouteRegisterBegin(p) ==
  /\ pc[p] = "rr_begin"
  /\ beginTransaction(p, "rr_check")

\* SELECT workspaceURL FROM client WHERE workspaceURL = ? AND active = true;
\* an error of the series ends in connection.rollback, without a release
RouteRegisterCheck(p) ==
  /\ pc[p] = "rr_check"
  /\ \/ Throw(p, DatabaseError)
     \/ /\ ActiveClients(req[p].workspaceURL) # {}
        /\ Throw(p, ServerResponseError(403, "workspaceURL"))
     \/ /\ ActiveClients(req[p].workspaceURL) = {}
        /\ Goto(p, "rr_client", loc[p])
  /\ ReadOnly

\* INSERT INTO client
RouteRegisterClient(p) ==
  /\ pc[p] = "rr_client"
  /\ \/ Throw(p, DatabaseError) /\ UNCHANGED <<tx, nextId>>
     \/ InsertClient(p) /\ Goto(p, "rr_user", loc[p])
  /\ UNCHANGED <<now, mount, db, sentEmails, updates, applied, req, issued, conn>>

\* bcrypt.hashSync and INSERT INTO user
RouteRegisterUser(p) ==
  /\ pc[p] = "rr_user"
  /\ \/ Throw(p, DatabaseError) /\ UNCHANGED <<tx, nextId>>
     \/ InsertUser(p) /\ Goto(p, "rr_role", loc[p])
  /\ UNCHANGED <<now, mount, db, sentEmails, updates, applied, req, issued, conn>>

\* INSERT INTO userRoles
RouteRegisterRole(p) ==
  /\ pc[p] = "rr_role"
  /\ \/ Throw(p, DatabaseError) /\ UNCHANGED <<tx, nextId>>
     \/ InsertRole(p) /\ Goto(p, "rr_commit", loc[p])
  /\ UNCHANGED <<now, mount, db, sentEmails, updates, applied, req, issued, conn>>

\* connection.commit: on success the connection is released, on error the
\* transaction is rolled back
RouteRegisterCommit(p) ==
  /\ pc[p] = "rr_commit"
  /\ \/ /\ CommitRows(p)
        /\ conn' = [conn EXCEPT ![p] = "released"]
        /\ Respond(p, Success)
     \/ UNCHANGED <<db, conn>> /\ Respond(p, DatabaseError)
  /\ UNCHANGED <<now, mount, sentEmails, nextId, updates, applied, req, loc, issued, tx>>
\* -------------------------------------------- the un-awaited updates
\* instance.updateAttributes({ field: value }) of the row of table with the
\* given key, made while redeeming the one-time code; by is the request that
\* made the call, so that equal calls of two requests are two statements
Update(table, key, field, value, code) ==
  [table |-> table, key |-> key, field |-> field, value |-> value, code |-> code,
   by |-> 0]

\* the rows of a table after UPDATE table SET field = value WHERE key
UpdateRows(rows, u, table) ==
  IF u.table # table THEN rows
  ELSE {IF (IF table = "user" THEN r.id ELSE r.code) = u.key
          THEN [r EXCEPT ![u.field] = u.value] ELSE r : r \in rows}

\* the UPDATE statement reaches the database and is committed on its own
ApplyUpdate(u) ==
  /\ updates' = updates \ {u}
  /\ applied' = applied \cup {u}
  /\ user' = UpdateRows(user, u, "user")
  /\ passwordReset' = UpdateRows(passwordReset, u, "passwordReset")
  /\ emailVerificationCode' =
       UpdateRows(emailVerificationCode, u, "emailVerificationCode")
  /\ UNCHANGED <<now, mount, client, userRoles, sentEmails, nextId, pc, req, loc, issued,
                 tx, conn, resp>>

\* the UPDATE statement fails: its promise is rejected and nobody handles it
FailUpdate(u) ==
  /\ updates' = updates \ {u}
  /\ UNCHANGED <<now, mount, db, sentEmails, nextId, applied, pc, req, loc, issued, tx,
                 conn, resp>>

\* the request in slot p makes the calls us and does not wait for them: each
\* call is a statement of its own, in flight until it is applied or fails
Issue(p, us) ==
  LET calls == {[u EXCEPT !.by = p] : u \in us} IN
  /\ updates' = updates \cup calls
  /\ issued' = [issued EXCEPT ![p] = calls]

\* ----------------------------------------------------- one-time codes
\* moment(t).isBetween(from, to): both ends are excluded
isBetween(t, from, to) == from < t /\ t < to

\* the grace-period test of a code row at time currentTime
WithinGracePeriod(row, currentTime) ==
  isBetween(row.createdAt, currentTime - row.gracePeriod * Hour, currentTime)

\* client.findOne({ where: { workspaceURL, active: true } }) of the code handlers
LoadClient(p, label) ==
  /\ \/ Throw(p, DatabaseError)
     \/ /\ ActiveClients(req[p].workspaceURL) = {}
        /\ Throw(p, ServerResponseError(403, "client"))
     \/ \E c \in ActiveClients(req[p].workspaceURL) :
          Goto(p, label, [loc[p] EXCEPT !.client = {c}])
  /\ ReadOnly

\* passwordReset.findOne({ where: { resetCode, clientId: client.get("id") } })
FindReset(p) ==
  {r \in passwordReset :
     r.code = req[p].code /\ \E c \in loc[p].client : r.clientId = c.id}

\* emailVerificationCode.findOne({ where }), where.userId only if not null
FindVerification(p) ==
  {r \in emailVerificationCode :
     /\ r.code = req[p].code
     /\ req[p].userId # 0 => r.userId = req[p].userId}

\* the checks made on a code row that was found: already used, expired
CodeError(row) ==
  IF row.activated THEN "used"
  ELSE IF ~WithinGracePeriod(row, now) THEN "expired"
  ELSE "none"

\* --------------------------------------------- validateResetPasswordCode
ValidateResetStart(p) ==
  /\ \E w \in Workspaces, c \in Codes :
       Begin(p, Request("validateResetPasswordCode", w, "", "", c, 0), "vrc_client")
  /\ UNCHANGED <<now, mount, db, sentEmails, nextId, updates, applied, loc, issued, tx,
                 conn, resp>>

ValidateResetClient(p) ==
  /\ pc[p] = "vrc_client"
  /\ LoadClient(p, "vrc_code")

\* await passwordReset.findOne, and the checks of the row
ValidateResetCode(p) ==
  /\ pc[p] = "vrc_code"
  /\ \/ Throw(p, DatabaseError)
     \/ /\ FindReset(p) = {}
        /\ Throw(p, ServerResponseError(403, "code"))
     \/ \E reset \in FindReset(p) :
          IF CodeError(reset) # "none"
            THEN Throw(p, ServerResponseError(403, "code"))
            ELSE Return(p, Success)
  /\ ReadOnly

\* ----------------------------------------------------- resetUserPassword
ResetPasswordStart(p) ==
  /\ \E w \in Workspaces, c \in Codes, pw \in Passwords :
       Begin(p, Request("resetUserPassword", w, "", pw, c, 0), "rup_client")
  /\ UNCHANGED <<now, mount, db, sentEmails, nextId, updates, applied, loc, issued, tx,
                 conn, resp>>

ResetPasswordClient(p) ==
  /\ pc[p] = "rup_client"
  /\ LoadClient(p, "rup_code")

\* mutant: the password is stored before the state of the code is looked at
ResetPasswordCodeWritesFirst(p) ==
  /\ pc[p] = "rup_code"
  /\ \/ /\ FindReset(p) = {}
        /\ Throw(p, ServerResponseError(403, "code"))
        /\ UNCHANGED <<updates, issued>>
     \/ \E reset \in FindReset(p) :
          /\ Issue(p, {Update("user", reset.userId, "password",
                              bcryptHash(req[p].password), reset.code)})
          /\ IF CodeError(reset) # "none"
               THEN Throw(p, ServerResponseError(403, "code"))
               ELSE Goto(p, "rup_user", [loc[p] EXCEPT !.code = {reset}])
  /\ UNCHANGED <<now, mount, db, sentEmails, nextId, applied, req, tx, conn>>

\* await passwordReset.findOne, and the checks of the row
ResetPasswordCode(p) ==
  /\ pc[p] = "rup_code"
  /\ \/ Throw(p, DatabaseError)
     \/ /\ FindReset(p) = {}
        /\ Throw(p, ServerResponseError(403, "code"))
     \/ \E reset \in FindReset(p) :
          IF CodeError(reset) # "none"
            THEN Throw(p, ServerResponseError(403, "code"))
            ELSE Goto(p, "rup_user", [loc[p] EXCEPT !.code = {reset}])
  /\ UNCHANGED <<updates, issued>>
  /\ UNCHANGED <<now, mount, db, sentEmails, nextId, applied, req, tx, conn>>

\* await user.findOne({ where: { id: reset.userId, clientId: reset.clientId,
\* active: true } }); without a user the error carries null for its reason
ResetPasswordUser(p) ==
  /\ pc[p] = "rup_user"
  /\ \E reset \in loc[p].code :
       \/ Throw(p, DatabaseError)
       \/ /\ ActiveUsers(reset.userId, reset.clientId) = {}
          /\ Throw(p, ServerResponseError(403, ""))
       \/ \E u \in ActiveUsers(reset.userId, reset.clientId) :
            Goto(p, "rup_hash", [loc[p] EXCEPT !.user = {u}])
  /\ ReadOnly

\* await bcrypt.hash; then the two updateAttributes calls are made without
\* waiting, the confirmation mail is sent and the response returned
ResetPasswordHash(p) ==
  /\ pc[p] = "rup_hash"
  /\ \E reset \in loc[p].code, u \in loc[p].user :
       /\ Issue(p, {Update("user", u.id, "password", bcryptHash(req[p].password),
                           reset.code),
                    Update("passwordReset", reset.code, "activated", TRUE,
                           reset.code)})
       /\ sentEmails' = sentEmails \cup
            {EmailRow("RESET_PASSWORD_SUCCESS", u.emailAddress, u.clientId, u.id,
                      now)}
       /\ Return(p, Success)
  /\ UNCHANGED <<now, mount, db, nextId, applied, req, tx, conn>>

\* ------------------------------------------------------- verifyUserEmail
VerifyEmailStart(p) ==
  /\ \E w \in Workspaces, c \in Codes, id \in UserIds :
       Begin(p, Request("verifyUserEmail", w, "", "", c, id), "vue_client")
  /\ UNCHANGED <<now, mount, db, sentEmails, nextId, updates, applied, loc, issued, tx,
                 conn, resp>>

VerifyEmailClient(p) ==
  /\ pc[p] = "vue_client"
  /\ LoadClient(p, "vue_code")

\* await emailVerificationCode.findOne, and the checks of the row
VerifyEmailCode(p) ==
  /\ pc[p] = "vue_code"
  /\ \/ Throw(p, DatabaseError)
     \/ /\ FindVerification(p) = {}
        /\ Throw(p, ServerResponseError(403, "code"))
     \/ \E verification \in FindVerification(p) :
          IF CodeError(verification) # "none"
            THEN Throw(p, ServerResponseError(403, "code"))
            ELSE Goto(p, "vue_user", [loc[p] EXCEPT !.code = {verification}])
  /\ ReadOnly

\* await user.findOne; without a user, or with a verified one, the error
\* carries null for its reason; otherwise the two updateAttributes calls are
\* made without waiting and the response returned
VerifyEmailUser(p) ==
  /\ pc[p] = "vue_user"
  /\ \E verification \in loc[p].code :
       \/ Throw(p, DatabaseError) /\ UNCHANGED <<updates, issued>>
       \/ /\ ActiveUsers(verification.userId, verification.clientId) = {}
          /\ Throw(p, ServerResponseError(403, ""))
          /\ UNCHANGED <<updates, issued>>
       \/ \E u \in ActiveUsers(verification.userId, verification.clientId) :
            IF u.emailVerified
              THEN /\ Throw(p, ServerResponseError(403, ""))
                   /\ UNCHANGED <<updates, issued>>
              ELSE /\ Issue(p, {Update("user", u.id, "emailVerified", TRUE,
                                       verification.code),
                                Update("emailVerificationCode", verification.code,
                                       "activated", TRUE, verification.code)})
                   /\ Return(p, Success)
  /\ UNCHANGED <<now, mount, db, sentEmails, nextId, applied, req, tx, conn>>

\* ----------------------------------------------- authenticateWithoutToken
\* jwt.sign({ userId, clientId, workspaceURL }, secret, { expiresIn })
jwtSign(userId, clientId, workspaceURL) ==
  [userId |-> userId, clientId |-> clientId, workspaceURL |-> workspaceURL]

AuthenticateStart(p) ==
  /\ \E w \in Workspaces, e \in Emails, pw \in Passwords :
       Begin(p, Request("authenticateWithoutToken", w, e, pw, 0, 0), "awt_client")
  /\ UNCHANGED <<now, mount, db, sentEmails, nextId, updates, applied, loc, issued, tx,
                 conn, resp>>

\* the client is loaded by workspaceURL; without it the error is keyed workspaceURL
AuthenticateClient(p) ==
  /\ pc[p] = "awt_client"
  /\ \/ Throw(p, DatabaseError)
     \/ /\ ActiveClients(req[p].workspaceURL) = {}
        /\ Throw(p, ServerResponseError(403, "workspaceURL"))
     \/ \E c \in ActiveClients(req[p].workspaceURL) :
          Goto(p, "awt_user", [loc[p] EXCEPT !.client = {c}])
  /\ ReadOnly

\* await user.findOne({ where: { clientId, emailAddress, active: true } })
AuthenticateUser(p) ==
  /\ pc[p] = "awt_user"
  /\ \E c \in loc[p].client :
       \/ Throw(p, DatabaseError)
       \/ /\ ActiveUsersByEmail(c.id, req[p].emailAddress) = {}
          /\ Throw(p, ServerResponseError(403, "emailAddress"))
       \/ \E u \in ActiveUsersByEmail(c.id, req[p].emailAddress) :
            Goto(p, "awt_compare", [loc[p] EXCEPT !.user = {u}])
  /\ ReadOnly

\* mutant: the token is signed without comparing the password
AuthenticateResultUnchecked(p, u) ==
  [status |-> 200, reason |-> "",
   token |-> LET c == CHOOSE c \in loc[p].client : TRUE
             IN jwtSign(u.id, c.id, c.workspaceURL)]

\* what authenticateWithoutToken answers once bcrypt.compare has resolved for
\* the user row u: the error keyed password, or the response with the token
\* signed for the user and the client it loaded
AuthenticateResult(p, u) ==
  IF bcryptCompare(req[p].password, u.password)
    THEN [status |-> 200, reason |-> "",
          token |-> LET c == CHOOSE c \in loc[p].client : TRUE
                    IN jwtSign(u.id, c.id, c.workspaceURL)]
    ELSE ServerResponseError(403, "password")

\* await bcrypt.compare; then the token is signed, lastLoginDate updated
\* without waiting and the response returned
AuthenticateCompare(p) ==
  /\ pc[p] = "awt_compare"
  /\ \E u \in loc[p].user :
       IF AuthenticateResult(p, u).status = 200
         THEN /\ Issue(p, {Update("user", u.id, "lastLoginDate", now, 0)})
              /\ Return(p, AuthenticateResult(p, u))
         ELSE /\ Throw(p, AuthenticateResult(p, u))
              /\ UNCHANGED <<updates, issued>>
  /\ UNCHANGED <<now, mount, db, sentEmails, nextId, applied, req, tx, conn>>

\* ------------------------------------------------------ forgotten accounts
\* sentEmails.findAll({ where: { to, emailType, createdAt: { between: [
\* currentTime - 5 minutes, currentTime ] } } })
RecentEmails(to, emailType, currentTime) ==
  {m \in sentEmails :
     /\ m.to = to /\ m.emailType = emailType
     /\ currentTime - 1 <= m.createdAt /\ m.createdAt <= currentTime}

\* user.findAll({ where: { emailAddress, active: true } })
ActiveAccounts(emailAddress) ==
  {u \in user : u.emailAddress = emailAddress /\ u.active}

\* the rows of findAll as the array the loop iterates, in the order of the ids
RECURSIVE ById(_)
ById(rows) ==
  IF rows = {} THEN <<>>
  ELSE LET first == CHOOSE r \in rows : \A o \in rows : r.id <= o.id
       IN <<first>> \o ById(rows \ {first})

ForgotPasswordStart(p) ==
  /\ \E w \in Workspaces, e \in Emails :
       Begin(p, Request("forgotAccountPasswordEmail", w, e, "", 0, 0), "fpe_client")
  /\ UNCHANGED <<now, mount, db, sentEmails, nextId, updates, applied, loc, issued, tx,
                 conn, resp>>

\* without a client for the workspace the callback returns
\* forgotAccountEmail(received), which runs in a transaction of its own; with
\* a client the time is taken and sentEmails.findAll called
ForgotPasswordClient(p) ==
  /\ pc[p] = "fpe_client"
  /\ \/ Throw(p, DatabaseError)
     \/ /\ ActiveClients(req[p].workspaceURL) = {}
        /\ Goto(p, "fae_begin", loc[p])
     \/ \E c \in ActiveClients(req[p].workspaceURL) :
          Goto(p, "fpe_check",
               [loc[p] EXCEPT !.client = {c}, !.currentTime = now])
  /\ ReadOnly

\* await sentEmails.findAll: a FORGOT_PASSWORD mail sent in the 5 minutes
\* before the time taken ends the request
ForgotPasswordCheck(p) ==
  /\ pc[p] = "fpe_check"
  /\ \/ Throw(p, DatabaseError)
     \/ IF RecentEmails(req[p].emailAddress, "FORGOT_PASSWORD",
                        loc[p].currentTime) # {}
          THEN Return(p, Success)
          ELSE Goto(p, "fpe_user", loc[p])
  /\ ReadOnly

\* await user.findOne({ where: { emailAddress, clientId, active: true } });
\* for the user found passwordReset.create is called
ForgotPasswordUser(p) ==
  /\ pc[p] = "fpe_user"
  /\ \E c \in loc[p].client :
       \/ Throw(p, DatabaseError)
       \/ /\ ActiveUsersByEmail(c.id, req[p].emailAddress) = {}
          /\ Return(p, Success)
       \/ \E u \in ActiveUsersByEmail(c.id, req[p].emailAddress) :
            Goto(p, "fpe_create",
                 [loc[p] EXCEPT !.user = {u}, !.createdAt = now])
  /\ ReadOnly

\* await passwordReset.create; then the mail is sent and the response returned
ForgotPasswordCreate(p) ==
  /\ pc[p] = "fpe_create"
  /\ \/ Throw(p, DatabaseError) /\ UNCHANGED <<tx, nextId, sentEmails>>
     \/ \E u \in loc[p].user :
          /\ tx' = [tx EXCEPT ![p].passwordReset =
                      {CodeRow(nextId.code, u.id, u.clientId, ResetGracePeriod,
                               loc[p].createdAt)}]
          /\ nextId' = [nextId EXCEPT !.code = @ + 1]
          /\ sentEmails' = sentEmails \cup
               {EmailRow("FORGOT_PASSWORD", req[p].emailAddress, u.clientId, u.id, now)}
          /\ Return(p, Success)
  /\ UNCHANGED <<now, mount, db, updates, applied, req, issued, conn>>

ForgotAccountStart(p) ==
  /\ \E e \in Emails :
       Begin(p, Request("forgotAccountEmail", "", e, "", 0, 0), "fae_begin")
  /\ UNCHANGED <<now, mount, db, sentEmails, nextId, updates, applied, loc, issued, tx,
                 conn, resp>>

\* the callback of forgotAccountEmail returns response: its transaction is
\* committed next, inside the transaction of forgotAccountPasswordEmail if it
\* was called from there
ForgotAccountReturn(p, l, response) ==
  Goto(p, IF req[p].op = "forgotAccountPasswordEmail" THEN "fae_commit"
                                                      ELSE "commit",
       [Ended(l) EXCEPT !.response = response])

\* the transaction of forgotAccountEmail begins, or fails to: its callback
\* takes the time and calls sentEmails.findAll
ForgotAccountBegin(p) ==
  /\ pc[p] = "fae_begin"
  /\ \/ Throw(p, DatabaseError)
     \/ Goto(p, "fae_check", [loc[p] EXCEPT !.currentTime = now])
  /\ ReadOnly

\* await sentEmails.findAll: a FORGOT_ACCOUNT_DETAILS mail sent in the 5
\* minutes before the time taken ends the request
ForgotAccountCheck(p) ==
  /\ pc[p] = "fae_check"
  /\ \/ Throw(p, DatabaseError)
     \/ IF RecentEmails(req[p].emailAddress, "FORGOT_ACCOUNT_DETAILS",
                        loc[p].currentTime) # {}
          THEN ForgotAccountReturn(p, loc[p], Success)
          ELSE Goto(p, "fae_users", loc[p])
  /\ ReadOnly

\* await user.findAll({ where: { emailAddress, active: true } })
ForgotAccountUsers(p) ==
  /\ pc[p] = "fae_users"
  /\ \/ Throw(p, DatabaseError)
     \/ IF ActiveAccounts(req[p].emailAddress) = {}
          THEN ForgotAccountReturn(p, loc[p], Success)
          ELSE Goto(p, "fae_client",
                    [loc[p] EXCEPT !.users = ById(ActiveAccounts(req[p].emailAddress))])
  /\ ReadOnly

\* await client.findOne({ where: { id: user.clientId, active: true } }) for
\* the next user of the loop; without a client the callback ends with a bare
\* return, with one passwordReset.create is called
ForgotAccountClient(p) ==
  /\ pc[p] = "fae_client"
  /\ LET u == Head(loc[p].users)
         clients == {c \in client : c.id = u.clientId /\ c.active} IN
     \/ Throw(p, DatabaseError)
     \/ /\ clients = {}
        /\ ForgotAccountReturn(p, loc[p], Undefined)
     \/ \E c \in clients :
          Goto(p, "fae_create",
               [loc[p] EXCEPT !.client = {c}, !.createdAt = now])
  /\ ReadOnly

\* await passwordReset.create for the user of the loop; after the last user
\* the mail is sent and the response returned
ForgotAccountCreate(p) ==
  /\ pc[p] = "fae_create"
  /\ \/ Throw(p, DatabaseError) /\ UNCHANGED <<tx, nextId, sentEmails>>
     \/ LET u == Head(loc[p].users)
            rest == [loc[p] EXCEPT !.users = Tail(@)] IN
        /\ tx' = [tx EXCEPT ![p].passwordReset = @ \cup
                    {CodeRow(nextId.code, u.id, u.clientId, AccountGracePeriod,
                             loc[p].createdAt)}]
        /\ nextId' = [nextId EXCEPT !.code = @ + 1]
        /\ IF rest.users = <<>>
             THEN /\ sentEmails' = sentEmails \cup
                       {EmailRow("FORGOT_ACCOUNT_DETAILS", req[p].emailAddress,
                                 0, 0, now)}
                  /\ ForgotAccountReturn(p, rest, Success)
             ELSE /\ UNCHANGED sentEmails
                  /\ Goto(p, "fae_client", rest)
  /\ UNCHANGED <<now, mount, db, updates, applied, req, issued, conn>>

\* the transaction of forgotAccountEmail called by forgotAccountPasswordEmail
\* commits, and the outer callback returns what it resolved to, or fails
ForgotAccountCommit(p) ==
  /\ pc[p] = "fae_commit"
  /\ \/ CommitRows(p) /\ Goto(p, "commit", loc[p])
     \/ UNCHANGED db /\ Throw(p, DatabaseError)
  /\ UNCHANGED <<now, mount, sentEmails, nextId, updates, applied, req, issued, tx,
                 conn>>

\* ------------------------------------------------------- resendVerifyEmail
\* an error thrown by the handler itself (client.get of null), passed on to
\* the generic error handler like a database error
TypeError == [status |-> 500, reason |-> "TypeError", token |-> NoToken]

\* sentEmails.findAll({ where: { clientId, userId, emailType: CLIENT_WELCOME,
\* createdAt: { between: [ currentTime - 5 minutes, currentTime ] } } })
RecentWelcomeEmails(clientId, userId, currentTime) ==
  {m \in sentEmails :
     /\ m.clientId = clientId /\ m.userId = userId
     /\ m.emailType = "CLIENT_WELCOME"
     /\ currentTime - 1 <= m.createdAt /\ m.createdAt <= currentTime}

\* the request of the session user (userId, clientId); userId 0 is null
ResendRequest(userId, clientId) ==
  [Request("resendVerifyEmail", "", "", "", 0, userId) EXCEPT
     !.clientId = clientId,
     !.redeemed = \E q \in Procs :
                    /\ pc[q] = "done" /\ resp[q].status = 200
                    /\ req[q].op = "verifyUserEmail"
                    /\ \E r \in emailVerificationCode :
                         r.code = req[q].code /\ r.userId = userId]

ResendStart(p) ==
  /\ \E u \in user : \E id \in {0, u.id} :
       Begin(p, ResendRequest(id, u.clientId), "rve_user")
  /\ UNCHANGED <<now, mount, db, sentEmails, nextId, updates, applied, loc, issued, tx,
                 conn, resp>>

\* the transaction begins, or fails to; then userId must be an integer, and
\* after await user.findOne the user active and the email not yet verified;
\* all three errors carry null in place of the reason map
ResendUser(p) ==
  /\ pc[p] = "rve_user"
  /\ \/ Throw(p, DatabaseError)
     \/ /\ req[p].userId = 0
        /\ Throw(p, ServerResponseError(403, ""))
     \/ /\ req[p].userId # 0
        /\ ActiveUsers(req[p].userId, req[p].clientId) = {}
        /\ Throw(p, ServerResponseError(403, ""))
     \/ /\ req[p].userId # 0
        /\ \E u \in ActiveUsers(req[p].userId, req[p].clientId) :
             IF u.emailVerified
               THEN Throw(p, ServerResponseError(403, ""))
               ELSE Goto(p, "rve_client", [loc[p] EXCEPT !.user = {u}])
  /\ ReadOnly

\* await client.findOne({ where: { id: clientId, active: true } }): the
\* client, or null; then the time is taken and sentEmails.findAll called
ResendClient(p) ==
  /\ pc[p] = "rve_client"
  /\ \/ Throw(p, DatabaseError)
     \/ Goto(p, "rve_check",
             [loc[p] EXCEPT
                !.client = {c \in client : c.id = req[p].clientId /\ c.active},
                !.currentTime = now])
  /\ ReadOnly

\* await sentEmails.findAll: a CLIENT_WELCOME mail of the 5 minutes before the
\* time taken ends the request; otherwise emailVerificationCode.create is
\* called
ResendCheck(p) ==
  /\ pc[p] = "rve_check"
  /\ \/ Throw(p, DatabaseError)
     \/ IF RecentWelcomeEmails(req[p].clientId, req[p].userId,
                               loc[p].currentTime) # {}
          THEN Return(p, Success)
          ELSE Goto(p, "rve_create", [loc[p] EXCEPT !.createdAt = now])
  /\ ReadOnly

\* await emailVerificationCode.create; then client.get throws if the client
\* of the session was not found, otherwise the RESEND_VERIFY_EMAIL mail is
\* sent and the response returned
ResendCreate(p) ==
  /\ pc[p] = "rve_create"
  /\ \/ Throw(p, DatabaseError) /\ UNCHANGED <<tx, nextId, sentEmails>>
     \/ /\ tx' = [tx EXCEPT ![p].emailVerificationCode =
                    {CodeRow(nextId.code, req[p].userId, req[p].clientId,
                             VerifyGracePeriod, loc[p].createdAt)}]
        /\ nextId' = [nextId EXCEPT !.code = @ + 1]
        /\ IF loc[p].client = {}
             THEN /\ Throw(p, TypeError)
                  /\ UNCHANGED sentEmails
             ELSE /\ \E u \in loc[p].user :
                       sentEmails' = sentEmails \cup
                         {EmailRow("RESEND_VERIFY_EMAIL", u.emailAddress,
                                   req[p].clientId, u.id, now)}
                  /\ Return(p, Success)
  /\ UNCHANGED <<now, mount, db, updates, applied, req, issued, conn>>
\* --------------------------------------------------- authenticateWithToken
\* the request carries the token of a user of the database, or none that the
\* jwt strategy accepts
TokenRequest(token) ==
  [Request("authenticateWithToken", token.workspaceURL, "", "", 0, token.userId)
     EXCEPT !.clientId = token.clientId, !.token = token]

TokenStart(p) ==
  /\ \/ Begin(p, TokenRequest(NoToken), "atk_auth")
     \/ \E u \in user, c \in client :
          /\ c.id = u.clientId
          /\ Begin(p, TokenRequest(jwtSign(u.id, c.id, c.workspaceURL)), "atk_auth")
  /\ UNCHANGED <<now, mount, db, sentEmails, nextId, updates, applied, loc, issued, tx,
                 conn, resp>>

\* passport.authenticate("jwt") and req.logIn: without a user, or with a login
\* error, the 403 token error; with a user the transaction that loads the user
\* row is started and, without waiting for it, the 200 response is sent
TokenAuthenticate(p) ==
  /\ pc[p] = "atk_auth"
  /\ \/ /\ req[p].token = NoToken
        /\ Respond(p, ServerResponseError(403, "token"))
     \/ /\ req[p].token # NoToken
        /\ \/ Respond(p, ServerResponseError(403, "token"))
           \/ /\ resp' = [resp EXCEPT ![p] = Success]
              /\ pc' = [pc EXCEPT ![p] = "atk_begin"]
  /\ UNCHANGED <<now, mount, db, sentEmails, nextId, updates, applied, req, loc, issued,
                 tx, conn>>

\* the transaction started before the response begins, or fails to, and the
\* error stays inside the transaction, where no caller receives it; its
\* callback takes the time and calls user.findOne
TokenBegin(p) ==
  /\ pc[p] = "atk_begin"
  /\ \/ /\ pc' = [pc EXCEPT ![p] = "done"]
        /\ UNCHANGED loc
     \/ /\ pc' = [pc EXCEPT ![p] = "atk_user"]
        /\ loc' = [loc EXCEPT ![p].currentTime = now]
  /\ UNCHANGED <<now, mount, db, sentEmails, nextId, updates, applied, req, issued,
                 tx, conn, resp>>

\* await user.findOne: it is rejected, and the error stays inside the
\* transaction; or the user row is loaded: if it is missing the 403 error is
\* thrown there likewise; otherwise lastLoginDate is set to the time taken
TokenUser(p) ==
  /\ pc[p] = "atk_user"
  /\ pc' = [pc EXCEPT ![p] = "done"]
  /\ \/ UNCHANGED <<updates, issued>>
     \/ /\ ActiveUsers(req[p].token.userId, req[p].token.clientId) = {}
        /\ UNCHANGED <<updates, issued>>
     \/ \E u \in ActiveUsers(req[p].token.userId, req[p].token.clientId) :
          Issue(p, {Update("user", u.id, "lastLoginDate", loc[p].currentTime, 0)})
  /\ UNCHANGED <<now, mount, db, sentEmails, nextId, applied, req, loc, tx, conn, resp>>


\* ------------------------------------------------------ validateWorkspaceURL
\* mutant: the styling is loaded whatever the subscription includes
HasStylingAlways(c) == TRUE

\* arrayContains(FEATURES.STYLING, features), with features the featureIds of
\* subscriptionFeatures.findAll({ where: { subscriptionId } })
HasStyling(c) ==
  "STYLING" \in {f.featureId : f \in {g \in subscriptionFeatures :
                                       g.subscriptionId = c.subscriptionId}}

\* clientStyling.findOne({ where: { clientId } })
StylingRows(clientId) == {s \in clientStyling : s.clientId = clientId}

\* the five styling values copied from the clientStyling row
ClientStyles(styling) ==
  [logoImage |-> styling.logoImage, backgroundImage |-> styling.backgroundImage,
   backgroundColor |-> styling.backgroundColor,
   primaryColor |-> styling.primaryColor,
   secondaryColor |-> styling.secondaryColor]

\* the style object of validateWorkspaceURL: the styling values, if the client
\* has the feature and a row, and always defaultLanguage, which is
\* LANGUAGE_CODES[client.get("defaultLanguage")] || ""
WorkspaceStyles(c) ==
  LET language == [defaultLanguage |-> languageCode(c.defaultLanguage)] IN
  IF HasStyling(c) /\ StylingRows(c.id) # {}
    THEN {ClientStyles(s) @@ language : s \in StylingRows(c.id)}
    ELSE {language}

\* { status: 200, message, style }
StyledSuccess(style) ==
  [status |-> 200, reason |-> "", token |-> NoToken, style |-> style]

\* the workspaceURL is the subdomain of the request, or empty
ValidateWorkspaceStart(p) ==
  /\ \E w \in Workspaces \cup {""} :
       Begin(p, Request("validateWorkspaceURL", w, "", "", 0, 0), "vwu_client")
  /\ UNCHANGED <<now, mount, db, sentEmails, nextId, updates, applied, loc, issued,
                 tx, conn, resp>>

ValidateWorkspaceClient(p) ==
  /\ pc[p] = "vwu_client"
  /\ \/ Throw(p, DatabaseError)
     \/ /\ ActiveClients(req[p].workspaceURL) = {}
        /\ Throw(p, ServerResponseError(403, "workspaceURL"))
     \/ \E c \in ActiveClients(req[p].workspaceURL) :
          Goto(p, "vwu_features", [loc[p] EXCEPT !.client = {c}])
  /\ ReadOnly

\* await subscriptionFeatures.findAll: with the STYLING feature the styling is
\* loaded next, without it the response is returned
ValidateWorkspaceFeatures(p) ==
  /\ pc[p] = "vwu_features"
  /\ \E c \in loc[p].client :
       \/ Throw(p, DatabaseError)
       \/ IF HasStyling(c)
            THEN Goto(p, "vwu_styling", loc[p])
            ELSE \E style \in WorkspaceStyles(c) : Return(p, StyledSuccess(style))
  /\ ReadOnly

\* await clientStyling.findOne, and the response is returned
ValidateWorkspaceStyling(p) ==
  /\ pc[p] = "vwu_styling"
  /\ \E c \in loc[p].client :
       \/ Throw(p, DatabaseError)
       \/ \E style \in WorkspaceStyles(c) : Return(p, StyledSuccess(style))
  /\ ReadOnly

\* ---------------------------------- GET /internal/validate_workspace_url
RouteValidateStart(p) ==
  /\ \E w \in Workspaces \cup {""} :
       Begin(p, Request("routeValidate", w, "", "", 0, 0), "rv_connect")
  /\ UNCHANGED <<now, mount, db, sentEmails, nextId, updates, applied, loc, issued,
                 tx, conn, resp>>

RouteValidateConnect(p) ==
  /\ pc[p] = "rv_connect"
  /\ getConnection(p, "rv_begin")

RouteValidateBegin(p) ==
  /\ pc[p] = "rv_begin"
  /\ beginTransaction(p, "rv_client")

\* SELECT id, subscriptionId FROM client WHERE workspaceURL = ? AND active =
\* true; an error of the series ends in connection.rollback, without a release
RouteValidateClient(p) ==
  /\ pc[p] = "rv_client"
  /\ \/ Throw(p, DatabaseError)
     \/ /\ ActiveClients(req[p].workspaceURL) = {}
        /\ Throw(p, ServerResponseError(403, "workspaceURL"))
     \/ \E c \in ActiveClients(req[p].workspaceURL) :
          Goto(p, "rv_features", [loc[p] EXCEPT !.client = {c}])
  /\ ReadOnly

\* SELECT featureId FROM subscriptionFeatures: with the STYLING feature the
\* styling is queried next, without it the transaction is committed
RouteValidateFeatures(p) ==
  /\ pc[p] = "rv_features"
  /\ \E c \in loc[p].client :
       \/ Throw(p, DatabaseError)
       \/ Goto(p, IF HasStyling(c) THEN "rv_styling" ELSE "rv_commit", loc[p])
  /\ ReadOnly

\* SELECT ... FROM clientStyling WHERE clientId = ?
RouteValidateStyling(p) ==
  /\ pc[p] = "rv_styling"
  /\ \/ Throw(p, DatabaseError)
     \/ Goto(p, "rv_commit", loc[p])
  /\ ReadOnly

\* the response of the route: style is set only with the feature and a row
RouteValidateResponses(c) ==
  IF HasStyling(c) /\ StylingRows(c.id) # {}
    THEN {StyledSuccess(ClientStyles(s)) : s \in StylingRows(c.id)}
    ELSE {Success}

\* connection.commit: on success the connection is released and the response
\* sent, on error the transaction is rolled back
RouteValidateCommit(p) ==
  /\ pc[p] = "rv_commit"
  /\ \/ /\ conn' = [conn EXCEPT ![p] = "released"]
        /\ \E c \in loc[p].client :
             \E r \in RouteValidateResponses(c) : Respond(p, r)
     \/ UNCHANGED conn /\ Respond(p, DatabaseError)
  /\ UNCHANGED <<now, mount, db, sentEmails, nextId, updates, applied, req, loc,
                 issued, tx>>

\* ----------------------------------------------------------------- loadUser
\* mutant: the client is loaded by its id alone
LoadUserClientsAnyWorkspace(received) ==
  {c \in client : c.id = received.clientId /\ c.active}

\* client.findOne({ where: { id: clientId, workspaceURL, active: true } })
LoadUserClients(received) ==
  {c \in client : /\ c.id = received.clientId
                  /\ c.workspaceURL = received.workspaceURL
                  /\ c.active}

\* subscriptionFeatures.findAll({ where: { subscriptionId } }), mapped to ids
ClientFeatures(c) ==
  {f.featureId : f \in {g \in subscriptionFeatures :
                          g.subscriptionId = c.subscriptionId}}

\* userRoles.findAll({ where: { userId } }), mapped to role ids
RolesOf(u) == {r.roleId : r \in {q \in userRoles : q.userId = u.id}}

\* the user properties returned to the front-end
UserProperties(u, c) ==
  [loginTime |-> now, userId |-> u.id, emailAddress |-> u.emailAddress,
   emailVerified |-> u.emailVerified, workspaceURL |-> c.workspaceURL,
   subscriptionId |-> c.subscriptionId, clientFeatures |-> ClientFeatures(c),
   userRoles |-> RolesOf(u), language |-> languageCode(u.language)]

\* { status: 200, message, user }
LoadUserSuccess(properties) ==
  [status |-> 200, reason |-> "", token |-> NoToken, user |-> properties]

\* the userId, clientId and workspaceURL of the session, in any combination
LoadUserStart(p) ==
  /\ \E u \in user, c \in client, w \in Workspaces :
       Begin(p, [Request("loadUser", w, "", "", 0, u.id) EXCEPT !.clientId = c.id],
             "lu_client")
  /\ UNCHANGED <<now, mount, db, sentEmails, nextId, updates, applied, loc, issued,
                 tx, conn, resp>>

LoadUserClient(p) ==
  /\ pc[p] = "lu_client"
  /\ \/ Throw(p, DatabaseError)
     \/ /\ LoadUserClients(req[p]) = {}
        /\ Throw(p, ServerResponseError(403, "client"))
     \/ \E c \in LoadUserClients(req[p]) :
          Goto(p, "lu_user", [loc[p] EXCEPT !.client = {c}])
  /\ ReadOnly

\* await user.findOne({ where: { id: userId, clientId, active: true } })
LoadUserUser(p) ==
  /\ pc[p] = "lu_user"
  /\ \/ Throw(p, DatabaseError)
     \/ /\ ActiveUsers(req[p].userId, req[p].clientId) = {}
        /\ Throw(p, ServerResponseError(403, "user"))
     \/ \E u \in ActiveUsers(req[p].userId, req[p].clientId) :
          Goto(p, "lu_features", [loc[p] EXCEPT !.user = {u}])
  /\ ReadOnly

\* await subscriptionFeatures.findAll
LoadUserFeatures(p) ==
  /\ pc[p] = "lu_features"
  /\ \E c \in loc[p].client :
       \/ Throw(p, DatabaseError)
       \/ IF ClientFeatures(c) = {}
            THEN Throw(p, ServerResponseError(403, "features"))
            ELSE Goto(p, "lu_roles", loc[p])
  /\ ReadOnly

\* await userRoles.findAll; then the user properties are built and, without
\* the STYLING feature, returned
LoadUserRoles(p) ==
  /\ pc[p] = "lu_roles"
  /\ \E c \in loc[p].client, u \in loc[p].user :
       \/ Throw(p, DatabaseError)
       \/ IF RolesOf(u) = {}
            THEN Throw(p, ServerResponseError(403, "roles"))
          ELSE IF HasStyling(c)
            THEN Goto(p, "lu_styling",
                      [loc[p] EXCEPT !.response = LoadUserSuccess(UserProperties(u, c))])
          ELSE Return(p, LoadUserSuccess(UserProperties(u, c)))
  /\ ReadOnly

\* await clientStyling.findOne: the styling values of the row join the user
\* properties, and the response is returned
LoadUserStyling(p) ==
  /\ pc[p] = "lu_styling"
  /\ \E c \in loc[p].client :
       \/ Throw(p, DatabaseError)
       \/ /\ StylingRows(c.id) = {}
          /\ Return(p, loc[p].response)
       \/ \E s \in StylingRows(c.id) :
            Return(p, LoadUserSuccess(loc[p].response.user @@ ClientStyles(s)))
  /\ ReadOnly
\* ------------------------------------------------- the VerifyEmail component
\* result.type is the REJECTED type of the action: the request was not
\* answered with status 200
Rejected(result) == result.status # 200

\* componentDidMount: the subdomain of window.location is read and
\* validateWorkspaceURL(subdomain) is dispatched
ComponentDidMount(p) ==
  /\ mount.phase = "unmounted"
  /\ \E w \in Workspaces \cup {""} :
       /\ Begin(p, Request("validateWorkspaceURL", w, "", "", 0, 0), "vwu_client")
       /\ mount' = [Unmounted EXCEPT !.phase = "validating",
                                     !.location = "/verify",
                                     !.subdomain = w, !.validateReq = p]
  /\ UNCHANGED <<now, db, sentEmails, nextId, updates, applied, loc, issued, tx,
                 conn, resp>>

\* mutant: the callback goes on after the redirect of a rejected validation
ValidateResolvedNoReturn ==
  /\ mount.phase = "validating"
  /\ pc[mount.validateReq] = "done"
  /\ \E q \in Procs, c \in Codes, id \in UserIds :
       /\ Begin(q, Request("verifyUserEmail", mount.subdomain, "", "", c, id),
                "vue_client")
       /\ mount' = [mount EXCEPT
                      !.phase = "verifying", !.verifyReq = q,
                      !.verifyDispatches = @ + 1,
                      !.location = IF Rejected(resp[mount.validateReq])
                                     THEN "/" ELSE @]
  /\ UNCHANGED <<now, db, sentEmails, nextId, updates, applied, loc, issued, tx,
                 conn, resp>>

\* the callback of validateWorkspaceURL(subdomain).then: a rejected result
\* replaces the location by "/" and returns; otherwise the code c of the hash
\* of the location and the logged-in user id, if any, are read as they are
\* then, and verifyUserEmail(body) is dispatched
ValidateResolved ==
  /\ mount.phase = "validating"
  /\ pc[mount.validateReq] = "done"
  /\ IF Rejected(resp[mount.validateReq])
       THEN /\ mount' = [mount EXCEPT !.phase = "done", !.location = "/"]
            /\ UNCHANGED <<pc, req>>
       ELSE \E q \in Procs, c \in Codes, id \in UserIds :
              /\ Begin(q, Request("verifyUserEmail", mount.subdomain, "", "",
                                  c, id), "vue_client")
              /\ mount' = [mount EXCEPT !.phase = "verifying", !.verifyReq = q,
                                        !.verifyDispatches = @ + 1]
  /\ UNCHANGED <<now, db, sentEmails, nextId, updates, applied, loc, issued, tx,
                 conn, resp>>

\* the callback of verifyUserEmail(body).then: a rejected result replaces the
\* location by "/"
VerifyResolved ==
  /\ mount.phase = "verifying"
  /\ pc[mount.verifyReq] = "done"
  /\ mount' = [mount EXCEPT
                 !.phase = "done",
                 !.location = IF Rejected(resp[mount.verifyReq]) THEN "/" ELSE @]
  /\ UNCHANGED <<now, db, sentEmails, nextId, updates, applied, pc, req, loc,
                 issued, tx, conn, resp>>

\* ------------------------------------------------------- specifications
\* the steps of every handler up to the commit of its transaction
ValidateResetSteps(p) ==
  \/ ValidateResetStart(p) \/ ValidateResetClient(p) \/ ValidateResetCode(p)

ResetPasswordSteps(p) ==
  \/ ResetPasswordStart(p) \/ ResetPasswordClient(p) \/ ResetPasswordCode(p)
  \/ ResetPasswordUser(p) \/ ResetPasswordHash(p)

VerifyEmailSteps(p) ==
  \/ VerifyEmailStart(p) \/ VerifyEmailClient(p) \/ VerifyEmailCode(p)
  \/ VerifyEmailUser(p)

CodeSteps(p) ==
  ValidateResetSteps(p) \/ ResetPasswordSteps(p) \/ VerifyEmailSteps(p)

RegisterSteps(p) ==
  \/ RegisterStart(p) \/ RegisterCheck(p) \/ RegisterClient(p) \/ RegisterHash(p)
  \/ RegisterUser(p) \/ RegisterRole(p) \/ RegisterCode(p)

RouteRegisterSteps(p) ==
  \/ RouteRegisterStart(p) \/ RouteRegisterConnect(p) \/ RouteRegisterBegin(p)
  \/ RouteRegisterCheck(p) \/ RouteRegisterClient(p) \/ RouteRegisterUser(p)
  \/ RouteRegisterRole(p) \/ RouteRegisterCommit(p)

AuthenticateSteps(p) ==
  \/ AuthenticateStart(p) \/ AuthenticateClient(p) \/ AuthenticateUser(p)
  \/ AuthenticateCompare(p)

ForgotSteps(p) ==
  \/ ForgotPasswordStart(p) \/ ForgotPasswordClient(p) \/ ForgotPasswordCheck(p)
  \/ ForgotPasswordUser(p) \/ ForgotPasswordCreate(p)
  \/ ForgotAccountStart(p) \/ ForgotAccountBegin(p) \/ ForgotAccountCheck(p)
  \/ ForgotAccountUsers(p) \/ ForgotAccountClient(p) \/ ForgotAccountCreate(p) \/ ForgotAccountCommit(p)

ResendSteps(p) ==
  \/ ResendStart(p) \/ ResendUser(p) \/ ResendClient(p) \/ ResendCheck(p)
  \/ ResendCreate(p)

TokenSteps(p) ==
  TokenStart(p) \/ TokenAuthenticate(p) \/ TokenBegin(p) \/ TokenUser(p)

ValidateWorkspaceSteps(p) ==
  \/ ValidateWorkspaceStart(p) \/ ValidateWorkspaceClient(p)
  \/ ValidateWorkspaceFeatures(p) \/ ValidateWorkspaceStyling(p)

RouteValidateSteps(p) ==
  \/ RouteValidateStart(p) \/ RouteValidateConnect(p) \/ RouteValidateBegin(p)
  \/ RouteValidateClient(p) \/ RouteValidateFeatures(p)
  \/ RouteValidateStyling(p) \/ RouteValidateCommit(p)

LoadUserSteps(p) ==
  \/ LoadUserStart(p) \/ LoadUserClient(p) \/ LoadUserUser(p)
  \/ LoadUserFeatures(p) \/ LoadUserRoles(p) \/ LoadUserStyling(p)

UpdateSteps == \E u \in updates : ApplyUpdate(u) \/ FailUpdate(u)

\* every handler, the clock and the un-awaited updates
Next ==
  \/ Tick
  \/ UpdateSteps
  \/ \E p \in Procs :
       \/ TransactionCommit(p)
       \/ RegisterSteps(p) \/ RouteRegisterSteps(p) \/ AuthenticateSteps(p)
       \/ ForgotSteps(p) \/ CodeSteps(p) \/ ResendSteps(p) \/ TokenSteps(p)
       \/ ValidateWorkspaceSteps(p) \/ RouteValidateSteps(p)
       \/ LoadUserSteps(p) \/ ComponentDidMount(p)
  \/ ValidateResolved
  \/ VerifyResolved

Spec == Init /\ [][Next]_vars

\* the two registration handlers, racing
NextRegister ==
  \E p \in Procs :
    RegisterSteps(p) \/ RouteRegisterSteps(p) \/ TransactionCommit(p)

SpecRegister == Init /\ [][NextRegister]_vars

\* the handlers that redeem one-time codes
NextCodes ==
  Tick \/ UpdateSteps \/ \E p \in Procs : CodeSteps(p) \/ TransactionCommit(p)

SpecCodes == Init /\ [][NextCodes]_vars

\* login against password resets
NextLogin ==
  \/ UpdateSteps
  \/ \E p \in Procs :
       AuthenticateSteps(p) \/ ResetPasswordSteps(p) \/ TransactionCommit(p)

SpecLogin == Init /\ [][NextLogin]_vars

\* the life of a code on the seeded database: the handlers that create codes
\* and those that redeem them
InitLifecycle == InitSeeded /\ NoRequests

NextLifecycle ==
  \/ Tick
  \/ UpdateSteps
  \/ \E p \in Procs :
       \/ RegisterSteps(p) \/ ForgotSteps(p) \/ ResendSteps(p) \/ CodeSteps(p)
       \/ TransactionCommit(p)

SpecLifecycle == InitLifecycle /\ [][NextLifecycle]_vars

\* forgotten passwords and accounts, with a suspended workspace in the database
InitForgot == (InitSeeded \/ InitSuspended) /\ NoRequests

NextForgot == Tick \/ \E p \in Procs : ForgotSteps(p) \/ TransactionCommit(p)

SpecForgot == InitForgot /\ [][NextForgot]_vars

\* the session of a user: login by token, verification of the e-mail address
\* and the resending of the verification mail
InitSession == (InitSeeded \/ InitSuspended) /\ NoRequests

NextSession ==
  \/ Tick
  \/ UpdateSteps
  \/ \E p \in Procs :
       \/ ResendSteps(p) \/ TokenSteps(p) \/ VerifyEmailSteps(p)
       \/ TransactionCommit(p)

SpecSession == InitSession /\ [][NextSession]_vars

\* the validation of workspaces, while workspaces are being registered
InitWorkspace == (InitEmpty \/ InitStyled) /\ NoRequests

NextWorkspace ==
  \E p \in Procs :
    \/ ValidateWorkspaceSteps(p) \/ RouteValidateSteps(p) \/ RegisterSteps(p)
    \/ TransactionCommit(p)

SpecWorkspace == InitWorkspace /\ [][NextWorkspace]_vars

\* login and the loading of the logged-in user, while workspaces are being
\* registered
InitTenant == (InitStyled \/ InitSuspended) /\ NoRequests

NextTenant ==
  \/ UpdateSteps
  \/ \E p \in Procs :
       \/ AuthenticateSteps(p) \/ LoadUserSteps(p) \/ RegisterSteps(p)
       \/ TransactionCommit(p)

SpecTenant == InitTenant /\ [][NextTenant]_vars

\* the VerifyEmail page of one browser and the server that answers it, next
\* to the requests of other browsers; the un-awaited updates stay in flight
InitVerifyPage == (InitSeeded \/ InitStyled) /\ NoRequests

NextVerifyPage ==
  \/ ValidateResolved
  \/ VerifyResolved
  \/ \E p \in Procs :
       \/ ComponentDidMount(p) \/ ValidateWorkspaceSteps(p)
       \/ VerifyEmailSteps(p) \/ TransactionCommit(p)

SpecVerifyPage == InitVerifyPage /\ [][NextVerifyPage]_vars

\* =================================================================== claims
RegisterOps == {"registerNewClient", "routeRegister"}
Answered(p, ops) == pc[p] = "done" /\ req[p].op \in ops

\* C1: at most one active client row exists for any workspaceURL, under any
\* interleaving of registration requests.
UniqueActiveWorkspace ==
  \A c1 \in client, c2 \in client :
    (c1.active /\ c2.active /\ c1.workspaceURL = c2.workspaceURL) => c1.id = c2.id

\* C4: a registration request that failed after its transaction began has left
\* none of the client, user, userRoles and emailVerificationCode rows it wrote
\* in the committed tables.
RegistrationAtomic ==
  \A p \in Procs :
    (Answered(p, RegisterOps) /\ resp[p].status # 200) =>
      /\ {r.id : r \in tx[p].client} \cap {r.id : r \in client} = {}
      /\ {r.id : r \in tx[p].user} \cap {r.id : r \in user} = {}
      /\ {r.userId : r \in tx[p].userRoles} \cap {r.userId : r \in userRoles} = {}
      /\ {r.code : r \in tx[p].emailVerificationCode}
           \cap {r.code : r \in emailVerificationCode} = {}

\* C4 witness: registerNewClient made all four inserts and its commit failed
RegistrationRolledBack ==
  \E p \in Procs :
    /\ Answered(p, {"registerNewClient"}) /\ resp[p] = DatabaseError
    /\ tx[p].client # {} /\ tx[p].user # {} /\ tx[p].userRoles # {}
    /\ tx[p].emailVerificationCode # {}

\* C6: a registration request that finds its workspaceURL held by an active
\* client ends there with the 403 error keyed by workspaceURL (or with the
\* database error of the lookup itself) and inserts no row.
DuplicateWorkspaceRejected ==
  [][\A p \in Procs :
       (/\ pc[p] \in {"rnc_check", "rr_check"} /\ pc'[p] # pc[p]
        /\ ActiveClients(req[p].workspaceURL) # {}) =>
         /\ pc'[p] = "done"
         /\ resp'[p] \in {ServerResponseError(403, "workspaceURL"), DatabaseError}
         /\ tx'[p] = EmptyTx
         /\ UNCHANGED <<db, nextId>>]_vars

\* C6 witness: both handlers have rejected a workspaceURL that is taken
DuplicateWorkspaceSeen ==
  /\ \E p \in Procs : /\ Answered(p, {"registerNewClient"})
                      /\ resp[p] = ServerResponseError(403, "workspaceURL")
                      /\ ActiveClients(req[p].workspaceURL) # {}
  /\ \E p \in Procs : /\ Answered(p, {"routeRegister"})
                      /\ resp[p] = ServerResponseError(403, "workspaceURL")
                      /\ ActiveClients(req[p].workspaceURL) # {}

\* C7: every committed user row has a userRoles row with active = true.
EveryUserHasActiveRole ==
  \A u \in user : \E r \in userRoles : r.userId = u.id /\ r.active

\* C7 witness: a registration has committed its user
RegisteredUserCommitted ==
  \E p \in Procs :
    /\ Answered(p, RegisterOps) /\ resp[p].status = 200
    /\ tx[p].user # {} /\ tx[p].user \subseteq user

\* the code row the request in slot p, about to be answered, finds
CodeLabels == {"vrc_code", "rup_code", "vue_code"}
FoundCode(p) == IF pc[p] = "vue_code" THEN FindVerification(p) ELSE FindReset(p)

\* C2: with the workspace and the code row found, validateResetPasswordCode,
\* resetUserPassword and verifyUserEmail accept the code (the handler goes on
\* past the checks of the row) exactly when it is not activated and
\* createdAt <= now < createdAt + gracePeriod hours, and answer 403 otherwise.
GraceWindowHalfOpen ==
  [][\A p \in Procs :
       (pc[p] \in CodeLabels /\ pc'[p] # pc[p] /\ resp'[p] # DatabaseError) =>
         \A row \in FoundCode(p) :
           /\ pc'[p] = "done" => resp'[p].status = 403
           /\ pc'[p] # "done" <=>
                /\ ~row.activated
                /\ row.createdAt <= now
                /\ now < row.createdAt + row.gracePeriod * Hour]_vars

\* the handlers that are given a one-time code
CodeOps == {"validateResetPasswordCode", "resetUserPassword", "verifyUserEmail"}

\* C3: a request that presents a code after the handler redeeming it has
\* returned success for that code is answered 403 (a database error apart).
UsedCodeRejected ==
  \A p \in Procs :
    (Answered(p, CodeOps) /\ req[p].redeemed /\ resp[p] # DatabaseError) =>
      resp[p].status = 403

\* the credentials of the request in slot p match the rows it loaded: an
\* active client of the workspaceURL, an active user of that client with the
\* e-mail address, and the password matches the hash of that row
ValidCredentials(p) ==
  \E c \in loc[p].client, u \in loc[p].user :
    /\ c.active /\ c.workspaceURL = req[p].workspaceURL
    /\ u.active /\ u.clientId = c.id /\ u.emailAddress = req[p].emailAddress
    /\ bcryptCompare(req[p].password, u.password)

\* C5: authenticateWithoutToken loads only committed rows, returns a token
\* only if an active client of the workspaceURL and an active user of that
\* client with the e-mail address were loaded and the password matches the
\* stored hash, and then does return it (a failed commit apart); otherwise it
\* answers 403 without a token.
CorrectPasswordRequired ==
  [][\A p \in Procs :
       (req'[p].op = "authenticateWithoutToken" /\ pc'[p] # pc[p]) =>
         /\ loc'[p].client \subseteq client
         /\ loc'[p].user \subseteq loc[p].user \cup user
         /\ pc'[p] = "done" =>
              /\ resp'[p].token # NoToken =>
                   ValidCredentials(p) /\ resp'[p].status = 200
              /\ resp'[p].token = NoToken =>
                   resp'[p].status = 403 \/ resp'[p] = DatabaseError
              /\ ~ValidCredentials(p) => resp'[p].status = 403
                                          \/ resp'[p] = DatabaseError
         /\ (pc[p] = "awt_compare" /\ ValidCredentials(p)) =>
              pc'[p] = "commit" /\ loc'[p].response.token # NoToken]_vars

\* C5 witness: a token was issued, and a wrong password was turned down
TokenIssued ==
  /\ \E p \in Procs : /\ Answered(p, {"authenticateWithoutToken"})
                      /\ resp[p].token # NoToken
  /\ \E p \in Procs : /\ Answered(p, {"authenticateWithoutToken"})
                      /\ resp[p] = ServerResponseError(403, "password")

\* one step of a code table: every row stays, unchanged but for a flag that
\* may go from false to true, and a new row is not activated
OneWay(old, new) ==
  /\ \A r \in old : \E n \in new :
       /\ n.code = r.code
       /\ r.activated => n.activated
       /\ [n EXCEPT !.activated = r.activated] = r
  /\ \A n \in new : (\A r \in old : r.code # n.code) => ~n.activated

\* C8: a code row is created with activated = false, its flag only ever goes
\* from false to true, and no code row is deleted.
CodeLifecycleOneWay ==
  [][/\ OneWay(passwordReset, passwordReset')
     /\ OneWay(emailVerificationCode, emailVerificationCode')]_vars

\* C8 witness: a code created by a handler has been redeemed
CreatedCodeActivated ==
  \E r \in passwordReset \cup emailVerificationCode :
    /\ r.activated
    /\ \E p \in Procs : r \in tx[p].passwordReset \cup tx[p].emailVerificationCode
                          \/ [r EXCEPT !.activated = FALSE]
                               \in tx[p].passwordReset \cup tx[p].emailVerificationCode

\* C9: in every state the password of the user has been replaced by a reset
\* with code c exactly if c is marked activated.
ResetAllOrNothing ==
  \A r \in passwordReset :
    r.activated <=>
      \E a \in applied :
        a.table = "user" /\ a.field = "password" /\ a.code = r.code

\* C10: a resetUserPassword or verifyUserEmail request that was rejected has
\* written nothing: it made no update and inserted no row.
RejectedWithoutEffect ==
  \A p \in Procs :
    (/\ Answered(p, {"resetUserPassword", "verifyUserEmail"})
     /\ resp[p].status = 403) =>
       issued[p] = {} /\ tx[p] = EmptyTx

\* C10 witness: a reset request was rejected for a code past its grace period
ExpiredCodeRejected ==
  \E p \in Procs :
    /\ Answered(p, {"resetUserPassword"}) /\ resp[p].status = 403
    /\ \E r \in passwordReset :
         /\ r.code = req[p].code /\ ~r.activated
         /\ r.createdAt + r.gracePeriod * Hour <= now
    /\ \E c \in ActiveClients(req[p].workspaceURL) : c \in loc[p].client

\* the handlers that reject a request with a ServerResponseError
EnvelopeOps ==
  {"registerNewClient", "authenticateWithoutToken", "resendVerifyEmail",
   "validateResetPasswordCode", "resetUserPassword", "verifyUserEmail"}

\* C11: every validation failure of these handlers is an error with status
\* 403 whose reason map is not empty and is keyed by the offending field.
ValidationErrorKeyed ==
  \A p \in Procs :
    (Answered(p, EnvelopeOps) /\ resp[p].status = 403) => resp[p].reason # ""

\* C12: every operation that ends without raising an error returns an
\* envelope with status 200; the forgot handlers do so whatever users and
\* active or inactive clients match the e-mail address.
SuccessEnvelope ==
  \A p \in Procs :
    (pc[p] = "done" /\ resp[p].status \notin {403, 500}) => resp[p].status = 200

\* C13: of the resetUserPassword requests presenting one reset code, and of
\* the verifyUserEmail requests presenting one verification code, at most one
\* returns success.
RedeemedAtMostOnce ==
  \A p \in Procs, q \in Procs :
    (/\ Answered(p, {"resetUserPassword", "verifyUserEmail"})
     /\ Answered(q, {req[p].op})
     /\ req[p].code = req[q].code
     /\ resp[p].status = 200 /\ resp[q].status = 200) => p = q

\* C14: authenticateWithToken sends the 200 response only after the user row
\* of the token has been looked up and found active.
TokenUserLoadedFirst ==
  \A p \in Procs :
    (req[p].op = "authenticateWithToken" /\ resp[p].status = 200) =>
      pc[p] = "done" /\ issued[p] # {}

\* C15: a code is accepted only under the workspace of the client it was
\* issued for.
CodesTenantScoped ==
  \A p \in Procs :
    (Answered(p, CodeOps) /\ resp[p].status = 200) =>
      \A r \in passwordReset \cup emailVerificationCode :
        r.code = req[p].code => \E c \in loc[p].client : r.clientId = c.id

\* C16: two resendVerifyEmail requests for one user never both produce a code
\* and a mail less than 5 minutes apart.
ResendThrottled ==
  \A p \in Procs, q \in Procs :
    (/\ p # q
     /\ Answered(p, {"resendVerifyEmail"}) /\ Answered(q, {"resendVerifyEmail"})
     /\ resp[p].status = 200 /\ resp[q].status = 200
     /\ req[p].userId = req[q].userId) =>
       \A a \in tx[p].emailVerificationCode, b \in tx[q].emailVerificationCode :
         a.createdAt # b.createdAt

\* the type of the mail a forgot request sends: it created a code with the
\* grace period of forgotAccountPasswordEmail, or those of forgotAccountEmail
ForgotOps == {"forgotAccountPasswordEmail", "forgotAccountEmail"}
ForgotMailType(p) ==
  IF \E r \in tx[p].passwordReset : r.gracePeriod = ResetGracePeriod
    THEN "FORGOT_PASSWORD" ELSE "FORGOT_ACCOUNT_DETAILS"

\* C17: two forgot requests for one address never both produce reset codes
\* and a mail of the same type less than 5 minutes apart, under any
\* interleaving.
ForgotThrottled ==
  \A p \in Procs, q \in Procs :
    (/\ p # q
     /\ Answered(p, ForgotOps) /\ Answered(q, ForgotOps)
     /\ resp[p] = Success /\ resp[q] = Success
     /\ req[p].emailAddress = req[q].emailAddress
     /\ ForgotMailType(p) = ForgotMailType(q)) =>
       \A a \in tx[p].passwordReset, b \in tx[q].passwordReset :
         a.createdAt # b.createdAt

\* C18: whatever accounts the database holds, forgotAccountPasswordEmail
\* hands the same status-200 envelope to its caller.
ForgotPasswordOpaque ==
  \A p \in Procs :
    (Answered(p, {"forgotAccountPasswordEmail"}) /\ resp[p] # DatabaseError) =>
      resp[p] = Success

\* C19: when a route handler has answered, the connection it obtained from
\* the pool has been released.
ConnectionReleased ==
  \A p \in Procs : pc[p] = "done" => conn[p] \in {"none", "released"}

\* C20: once verifyUserEmail has succeeded for a user, every further
\* verifyUserEmail or resendVerifyEmail request for that user is rejected with
\* 403 and neither activates nor creates a code (a request that a database
\* error ended apart).
VerifiedOnce ==
  \A p \in Procs :
    (/\ Answered(p, {"verifyUserEmail", "resendVerifyEmail"}) /\ req[p].redeemed
     /\ resp[p] # DatabaseError) =>
      /\ resp[p].status = 403
      /\ issued[p] = {} /\ tx[p] = EmptyTx

\* the step of slot p is the one by which a registerNewClient succeeds: it
\* adds exactly one client row c with the requested workspaceURL and the TRIAL
\* subscription, one user row u of that client, one active OWNER role of that
\* user and one emailVerificationCode row of that user and client, not
\* activated and with gracePeriod 2, and leaves every other row of these
\* tables and of passwordReset as it was
CreatesOneOfEach(p, c, u) ==
  /\ c \notin client /\ client' = client \cup {c}
  /\ \A o \in client : o.id # c.id
  /\ c.workspaceURL = req[p].workspaceURL
  /\ c.subscriptionId = "TRIAL"
  /\ u \notin user /\ user' = user \cup {u}
  /\ \A o \in user : o.id # u.id
  /\ u.clientId = c.id
  /\ \E r \in userRoles' :
       /\ r \notin userRoles /\ userRoles' = userRoles \cup {r}
       /\ r.userId = u.id /\ r.roleId = "OWNER" /\ r.active
  /\ \E v \in emailVerificationCode' :
       /\ v \notin emailVerificationCode
       /\ emailVerificationCode' = emailVerificationCode \cup {v}
       /\ v.userId = u.id /\ v.clientId = c.id
       /\ ~v.activated /\ v.gracePeriod = VerifyGracePeriod
  /\ passwordReset' = passwordReset

\* the rows of sentEmails that name the user u: u.id is new with the
\* registration, so that they are rows the registration has written
MailsOf(u) == {e \in sentEmails' : e.userId = u.id}

ValidateOps == {"validateWorkspaceURL", "routeValidate"}
StyleKeys ==
  {"logoImage", "backgroundImage", "backgroundColor", "primaryColor",
   "secondaryColor"}
\* the response carries the styling values
CarriesStyling(r) ==
  "style" \in DOMAIN r /\ StyleKeys \subseteq DOMAIN r.style

\* C22: workspace validation answers 200 if an active client has the
\* requested workspaceURL (a database error apart) and otherwise the 403
\* error keyed by workspaceURL; its response carries styling values only if
\* the subscription of that client includes STYLING and the client has a
\* clientStyling row, whose values they are; and no step of it changes a row.
WorkspaceValidation ==
  [][\A p \in Procs :
       (req'[p].op \in ValidateOps /\ pc'[p] # pc[p]) =>
         /\ UNCHANGED <<db, sentEmails, updates>>
         /\ pc'[p] = "done" =>
              /\ ActiveClients(req[p].workspaceURL) # {} =>
                   resp'[p].status = 200 \/ resp'[p] = DatabaseError
              /\ ActiveClients(req[p].workspaceURL) = {} =>
                   resp'[p] \in {ServerResponseError(403, "workspaceURL"),
                                 DatabaseError}
              /\ resp'[p].status = 200 =>
                   \E c \in ActiveClients(req[p].workspaceURL) :
                     /\ c \in loc'[p].client
                     /\ CarriesStyling(resp'[p]) =>
                          /\ \E f \in subscriptionFeatures :
                               /\ f.subscriptionId = c.subscriptionId
                               /\ f.featureId = "STYLING"
                          /\ \E s \in clientStyling :
                               /\ s.clientId = c.id
                               /\ \A k \in StyleKeys : resp'[p].style[k] = s[k]]_vars

\* C22 witness: one validation was answered with the styling of the
\* workspace, and another was rejected or answered without styling
WorkspaceStyled ==
  /\ \E p \in Procs : /\ Answered(p, ValidateOps) /\ resp[p].status = 200
                      /\ CarriesStyling(resp[p])
  /\ \E p \in Procs :
       /\ Answered(p, ValidateOps)
       /\ \/ resp[p] = ServerResponseError(403, "workspaceURL")
          \/ resp[p].status = 200 /\ ~CarriesStyling(resp[p])

\* the user u and the client c form a consistent tenant triple
Consistent(userId, clientId, workspaceURL, u, c) ==
  /\ u.id = userId /\ u.clientId = clientId
  /\ c.id = clientId /\ c.workspaceURL = workspaceURL

\* C23: the userId, clientId and workspaceURL of every token that
\* authenticateWithoutToken issues name a user row of that client and a client
\* row of that workspaceURL; and loadUser returns user properties only for
\* such a triple whose user and client are active, and they are that user's.
TenantConsistent ==
  [][\A p \in Procs :
       (pc[p] # "done" /\ pc'[p] = "done") =>
         /\ (req[p].op = "authenticateWithoutToken" /\ resp'[p].token # NoToken) =>
              \E u \in user, c \in client :
                Consistent(resp'[p].token.userId, resp'[p].token.clientId,
                           resp'[p].token.workspaceURL, u, c)
         /\ (req[p].op = "loadUser" /\ resp'[p].status = 200) =>
              \E u \in user, c \in client :
                /\ Consistent(req[p].userId, req[p].clientId,
                              req[p].workspaceURL, u, c)
                /\ u.active /\ c.active
                /\ resp'[p].user.userId = u.id
                /\ resp'[p].user.workspaceURL = c.workspaceURL]_vars

\* C23 witness: a token was issued and loadUser returned user properties
TokenAndUserLoaded ==
  /\ \E p \in Procs : /\ Answered(p, {"authenticateWithoutToken"})
                      /\ resp[p].token # NoToken
  /\ \E p \in Procs : Answered(p, {"loadUser"}) /\ resp[p].status = 200

\* C24: the VerifyEmail component dispatches verifyUserEmail only once the
\* validateWorkspaceURL request it dispatched has been answered and was not
\* rejected, and at most once per mount; after a rejected validation its
\* location is "/" and it has dispatched no verifyUserEmail; after a rejected
\* verification its location is "/".
VerifyDispatchedAfterValidation ==
  [][/\ mount'.verifyDispatches # mount.verifyDispatches =>
          /\ mount.verifyDispatches = 0 /\ mount'.verifyDispatches = 1
          /\ mount.validateReq # 0
          /\ pc[mount.validateReq] = "done"
          /\ resp[mount.validateReq].status = 200
          /\ pc[mount'.verifyReq] = "idle"
          /\ req'[mount'.verifyReq].op = "verifyUserEmail"
     /\ (/\ mount'.phase \in {"verifying", "done"}
         /\ resp'[mount'.validateReq].status # 200) =>
          mount'.location = "/" /\ mount'.verifyDispatches = 0
     /\ (/\ mount'.phase = "done" /\ mount'.verifyReq # 0
         /\ resp'[mount'.verifyReq].status # 200) =>
          mount'.location = "/"]_vars

\* C24 witness: the workspace was validated, verifyUserEmail was dispatched
\* and rejected, and the component has replaced the location by "/"
VerifyRejectedRedirected ==
  /\ mount.phase = "done" /\ mount.verifyDispatches = 1
  /\ resp[mount.validateReq].status = 200
  /\ resp[mount.verifyReq].status = 403
  /\ mount.location = "/"
====
